---- MODULE Spec2Model ----
(***************************************************************************)
(* A model of the separate-chaining hash table of src/src/lib.rs:          *)
(* HashMap<K, V> with its resize policy, the Entry API, the borrowing      *)
(* iterator Iter and the consuming iterator IntoIter.                      *)
(*                                                                         *)
(* Indices (bucket numbers, offsets inside a bucket, iterator cursors) are *)
(* 0-based as in the source; At(s, i) reads element i of a sequence.       *)
(***************************************************************************)
EXTENDS Integers, Sequences, FiniteSets, Bags, TLC

\* ------------------------------------------------------------------ bounds
NumKeys   == 2
MaxVal    == 1
MaxDigest == 1
MaxSeq    == 3

Keys    == 1..NumKeys
Vals    == 0..MaxVal
Digests == 0..MaxDigest
IterIds == {"it1", "it2"}

\* --------------------------------------------------------- program constants
INITIAL_NBUCKETS == 1

\* V::default() of the value type (the tests use integers)
DefaultValue == 0

\* Option<usize>::None of Iterator::position
NotFound == -1

VARIABLES
    buckets,   \* HashMap.buckets : Vec<Vec<(K, V)>>
    items,     \* HashMap.items   : usize
    hasher,    \* the digest DefaultHasher gives each key (fixed for a run)
    mode,      \* who holds the table: "map", "entry", "into_iter", "panicked"
    handle,    \* the live Entry, if any
    iters,     \* the borrowing iterators (Iter) acquired from the table
    into,      \* the cursor of the consuming iterator (IntoIter)
    last       \* the last call: its name, arguments and result

vars == <<buckets, items, hasher, mode, handle, iters, into, last>>

\* ------------------------------------------------------------ result values
None    == [tag |-> "None"]
Some(v) == [tag |-> "Some", val |-> v]
Panic   == [tag |-> "Panic"]
Unit    == [tag |-> "Unit"]
\* a &mut V into the table: the slot it designates
Ref(b, i) == [tag |-> "Ref", bucket |-> b, index |-> i]

At(s, i) == s[i + 1]

Call(op, key, val, ret, resized, made) ==
    [op |-> op, key |-> key, val |-> val, ret |-> ret,
     resized |-> resized, made |-> made]

\* --------------------------------------------------------------- the table

\* HashMap::bucket: hasher.finish() % self.buckets.len(); the caller has
\* checked that there is at least one bucket (a remainder by zero panics).
bucket(bs, h, key) == h[key] % Len(bs)

\* Iterator::position(|&(ref ekey, _)| ekey == key): the first offset whose
\* key equals key.
RECURSIVE positionFrom(_, _, _)
positionFrom(b, key, i) ==
    IF i >= Len(b) THEN NotFound
    ELSE IF At(b, i)[1] = key THEN i
    ELSE positionFrom(b, key, i + 1)

\* a search that starts behind the first pair of the bucket
position_skips_first(b, key) == positionFrom(b, key, 1)
position(b, key) == positionFrom(b, key, 0)

\* self.buckets.iter_mut().flat_map(|bucket| bucket.drain(..))
RECURSIVE drain(_)
drain(bs) == IF bs = <<>> THEN <<>> ELSE Head(bs) \o drain(Tail(bs))

\* rehash with each pair assigned to its bucket instead of pushed on it
RECURSIVE rehash_overwrites(_, _, _)
rehash_overwrites(new_buckets, pairs, h) ==
    IF pairs = <<>> THEN new_buckets
    ELSE LET p == Head(pairs)
             b == h[p[1]] % Len(new_buckets)
         IN  rehash_overwrites([new_buckets EXCEPT ![b + 1] = <<p>>], Tail(pairs), h)

\* the loop of resize: each drained pair is pushed on new_buckets[digest % len]
RECURSIVE rehash(_, _, _)
rehash(new_buckets, pairs, h) ==
    IF pairs = <<>> THEN new_buckets
    ELSE LET p == Head(pairs)
             b == h[p[1]] % Len(new_buckets)
         IN  rehash([new_buckets EXCEPT ![b + 1] = Append(@, p)], Tail(pairs), h)

\* growth by one bucket in place of doubling
target_size_by_one(bs) == Len(bs) + 1

target_size(bs) == IF Len(bs) = 0 THEN INITIAL_NBUCKETS ELSE 2 * Len(bs)

\* new_buckets.extend((0..target_size).map(|_| Vec::new()))
RECURSIVE empty_buckets(_)
empty_buckets(n) == IF n = 0 THEN <<>> ELSE Append(empty_buckets(n - 1), <<>>)

resize(bs, h) ==
    rehash(empty_buckets(target_size(bs)), drain(bs), h)

\* the growth check of insert
insert_grows(bs, n) == Len(bs) = 0 \/ n > Len(bs) \div 4

\* a growth check of entry that looks for the empty table only
entry_grows_empty_only(bs, n) == Len(bs) = 0

\* the growth check of entry
entry_grows(bs, n) == Len(bs) = 0 \/ n > (3 * Len(bs)) \div 4

\* insert with the bucket index taken before the growth check
insert_stale_bucket(bs, n, h, key, value) ==
    LET grow == insert_grows(bs, n)
        bs1  == IF grow THEN resize(bs, h) ELSE bs
        b    == IF Len(bs) = 0 THEN 0 ELSE bucket(bs, h, key)
        i    == position(At(bs1, b), key)
    IN  IF i # NotFound
        THEN [buckets |-> [bs1 EXCEPT ![b + 1][i + 1] = <<key, value>>],
              items   |-> n,
              ret     |-> Some(At(At(bs1, b), i)[2]),
              resized |-> grow]
        ELSE [buckets |-> [bs1 EXCEPT ![b + 1] = Append(@, <<key, value>>)],
              items   |-> n + 1,
              ret     |-> None,
              resized |-> grow]

\* insert counting the item on the overwrite path too
insert_counts_overwrite(bs, n, h, key, value) ==
    LET grow == insert_grows(bs, n)
        bs1  == IF grow THEN resize(bs, h) ELSE bs
        b    == bucket(bs1, h, key)
        i    == position(At(bs1, b), key)
    IN  IF i # NotFound
        THEN [buckets |-> [bs1 EXCEPT ![b + 1][i + 1] = <<key, value>>],
              items   |-> n + 1,
              ret     |-> Some(At(At(bs1, b), i)[2]),
              resized |-> grow]
        ELSE [buckets |-> [bs1 EXCEPT ![b + 1] = Append(@, <<key, value>>)],
              items   |-> n + 1,
              ret     |-> None,
              resized |-> grow]

\* HashMap::insert, as a function of the table: the table after the call, the
\* value returned and whether resize ran.
insert(bs, n, h, key, value) ==
    LET grow == insert_grows(bs, n)
        bs1  == IF grow THEN resize(bs, h) ELSE bs
        b    == bucket(bs1, h, key)
        i    == position(At(bs1, b), key)
    IN  IF i # NotFound
        THEN [buckets |-> [bs1 EXCEPT ![b + 1][i + 1] = <<key, value>>],
              items   |-> n,
              ret     |-> Some(At(At(bs1, b), i)[2]),
              resized |-> grow]
        ELSE [buckets |-> [bs1 EXCEPT ![b + 1] = Append(@, <<key, value>>)],
              items   |-> n + 1,
              ret     |-> None,
              resized |-> grow]

\* HashMap::get: the index computation panics on a table without buckets.
get(bs, h, key) ==
    IF Len(bs) = 0 THEN Panic
    ELSE LET b == At(bs, bucket(bs, h, key))
             i == position(b, key)
         IN  IF i = NotFound THEN None ELSE Some(At(b, i)[2])

\* contains_key answering whether the key's bucket holds anything
contains_key_any(bs, h, key) ==
    IF Len(bs) = 0 THEN Panic ELSE Some(At(bs, bucket(bs, h, key)) # <<>>)

\* HashMap::contains_key: self.get(key).is_some()
contains_key(bs, h, key) ==
    LET r == get(bs, h, key)
    IN  IF r = Panic THEN Panic ELSE Some(r.tag = "Some")

\* Vec::swap_remove(i): the last element takes the place of element i.
swap_remove(b, i) ==
    LET n == Len(b)
    IN  IF i = n - 1 THEN SubSeq(b, 1, n - 1)
        ELSE SubSeq([b EXCEPT ![i + 1] = b[n]], 1, n - 1)

\* remove without the decrement of items
remove_uncounted(bs, n, h, key) ==
    IF Len(bs) = 0 THEN [buckets |-> bs, items |-> n, ret |-> Panic]
    ELSE LET b == bucket(bs, h, key)
             i == position(At(bs, b), key)
         IN  IF i = NotFound
             THEN [buckets |-> bs, items |-> n, ret |-> None]
             ELSE [buckets |-> [bs EXCEPT ![b + 1] = swap_remove(@, i)],
                   items   |-> n,
                   ret     |-> Some(At(At(bs, b), i)[2])]

\* HashMap::remove, as a function of the table.
remove(bs, n, h, key) ==
    IF Len(bs) = 0 THEN [buckets |-> bs, items |-> n, ret |-> Panic]
    ELSE LET b == bucket(bs, h, key)
             i == position(At(bs, b), key)
         IN  IF i = NotFound
             THEN [buckets |-> bs, items |-> n, ret |-> None]
             ELSE [buckets |-> [bs EXCEPT ![b + 1] = swap_remove(@, i)],
                   items   |-> n - 1,
                   ret     |-> Some(At(At(bs, b), i)[2])]

\* ------------------------------------------------------------ the Entry API
NoHandle       == [kind |-> "None"]
Occupied(b, i) == [kind |-> "Occupied", bucket |-> b, index |-> i]
Vacant(k, b)   == [kind |-> "Vacant", key |-> k, bucket |-> b]

\* entry taking the bucket index before the growth check
entry_stale_bucket(bs, n, h, key) ==
    LET grow == entry_grows(bs, n)
        bs1  == IF grow THEN resize(bs, h) ELSE bs
        b    == IF Len(bs) = 0 THEN 0 ELSE bucket(bs, h, key)
        i    == position(At(bs1, b), key)
    IN  [buckets |-> bs1,
         resized |-> grow,
         handle  |-> IF i # NotFound THEN Occupied(b, i) ELSE Vacant(key, b)]

\* HashMap::entry, as a function of the table.
entry(bs, n, h, key) ==
    LET grow == entry_grows(bs, n)
        bs1  == IF grow THEN resize(bs, h) ELSE bs
        b    == bucket(bs1, h, key)
        i    == position(At(bs1, b), key)
    IN  [buckets |-> bs1,
         resized |-> grow,
         handle  |-> IF i # NotFound THEN Occupied(b, i) ELSE Vacant(key, b)]

\* VacantEntry::insert without the items += 1
vacant_insert_uncounted(bs, n, e, value) ==
    [buckets |-> [bs EXCEPT ![e.bucket + 1] = Append(@, <<e.key, value>>)],
     items   |-> n]

\* VacantEntry::insert: push on the captured bucket, count the item.
vacant_insert(bs, n, e, value) ==
    [buckets |-> [bs EXCEPT ![e.bucket + 1] = Append(@, <<e.key, value>>)],
     items   |-> n + 1]

\* or_insert storing value in the Occupied arm too
or_insert_overwrites(bs, n, e, value) ==
    IF e.kind = "Occupied"
    THEN [buckets |-> [bs EXCEPT ![e.bucket + 1][e.index + 1][2] = value],
          items |-> n, ret |-> Ref(e.bucket, e.index), made |-> 0]
    ELSE LET r == vacant_insert(bs, n, e, value)
         IN  [buckets |-> r.buckets, items |-> r.items,
              ret |-> Ref(e.bucket, Len(At(r.buckets, e.bucket)) - 1), made |-> 0]

\* Entry::or_insert: the Occupied arm hands out the slot found by entry, the
\* Vacant arm inserts value; ret designates the slot of the returned &mut V.
or_insert(bs, n, e, value) ==
    IF e.kind = "Occupied"
    THEN [buckets |-> bs, items |-> n, ret |-> Ref(e.bucket, e.index), made |-> 0]
    ELSE LET r == vacant_insert(bs, n, e, value)
         IN  [buckets |-> r.buckets, items |-> r.items,
              ret |-> Ref(e.bucket, Len(At(r.buckets, e.bucket)) - 1), made |-> 0]

\* or_insert_with calling maker() before the match
or_insert_with_eager(bs, n, e, value) ==
    IF e.kind = "Occupied"
    THEN [buckets |-> bs, items |-> n, ret |-> Ref(e.bucket, e.index), made |-> 1]
    ELSE LET r == vacant_insert(bs, n, e, value)
         IN  [buckets |-> r.buckets, items |-> r.items,
              ret |-> Ref(e.bucket, Len(At(r.buckets, e.bucket)) - 1), made |-> 1]

\* Entry::or_insert_with: maker() is evaluated in the Vacant arm only; made
\* counts its invocations and value is what it returns.
or_insert_with(bs, n, e, value) ==
    IF e.kind = "Occupied"
    THEN [buckets |-> bs, items |-> n, ret |-> Ref(e.bucket, e.index), made |-> 0]
    ELSE LET r == vacant_insert(bs, n, e, value)
         IN  [buckets |-> r.buckets, items |-> r.items,
              ret |-> Ref(e.bucket, Len(At(r.buckets, e.bucket)) - 1), made |-> 1]

\* Entry::or_default: or_insert_with(Default::default)
or_default(bs, n, e) == or_insert_with(bs, n, e, DefaultValue)

\* --------------------------------------------------------------- iterators

\* Iter::next moving to the next bucket without resetting the offset
RECURSIVE iter_next_keeps_offset(_, _, _)
iter_next_keeps_offset(bs, b, at) ==
    IF b >= Len(bs) THEN [bucket |-> b, at |-> at, item |-> None]
    ELSE IF at < Len(At(bs, b))
         THEN [bucket |-> b, at |-> at + 1, item |-> Some(At(At(bs, b), at))]
         ELSE iter_next_keeps_offset(bs, b + 1, at)

\* Iter::next putting the cursor back on bucket 0 when it runs off the end
RECURSIVE iter_next_rewinds(_, _, _)
iter_next_rewinds(bs, b, at) ==
    IF b >= Len(bs) THEN [bucket |-> 0, at |-> 0, item |-> None]
    ELSE IF at < Len(At(bs, b))
         THEN [bucket |-> b, at |-> at + 1, item |-> Some(At(At(bs, b), at))]
         ELSE iter_next_rewinds(bs, b + 1, 0)

\* Iter::next: the loop over the (bucket, at) cursor.
RECURSIVE iter_next(_, _, _)
iter_next(bs, b, at) ==
    IF b >= Len(bs) THEN [bucket |-> b, at |-> at, item |-> None]
    ELSE IF at < Len(At(bs, b))
         THEN [bucket |-> b, at |-> at + 1, item |-> Some(At(At(bs, b), at))]
         ELSE iter_next(bs, b + 1, 0)

\* IntoIter::next moving to the next bucket after every pop
RECURSIVE into_next_skips(_, _)
into_next_skips(bs, b) ==
    IF b >= Len(bs) THEN [buckets |-> bs, bucket |-> b, item |-> None]
    ELSE LET cur == At(bs, b)
         IN  IF Len(cur) > 0
             THEN [buckets |-> [bs EXCEPT ![b + 1] = SubSeq(cur, 1, Len(cur) - 1)],
                   bucket  |-> b + 1,
                   item    |-> Some(cur[Len(cur)])]
             ELSE into_next_skips(bs, b + 1)

\* IntoIter::next: pop from the bucket at the cursor, or move on.
RECURSIVE into_next(_, _)
into_next(bs, b) ==
    IF b >= Len(bs) THEN [buckets |-> bs, bucket |-> b, item |-> None]
    ELSE LET cur == At(bs, b)
         IN  IF Len(cur) > 0
             THEN [buckets |-> [bs EXCEPT ![b + 1] = SubSeq(cur, 1, Len(cur) - 1)],
                   bucket  |-> b,
                   item    |-> Some(cur[Len(cur)])]
             ELSE into_next(bs, b + 1)

\* ----------------------------------------------------------- from_iter

\* from_iter keeping the first pair of a key instead of the last
RECURSIVE from_iter_keeps_first(_, _, _)
from_iter_keeps_first(map, pairs, h) ==
    IF pairs = <<>> THEN map
    ELSE LET k == Head(pairs)[1]
             v == Head(pairs)[2]
             r == insert(map.buckets, map.items, h, k, v)
             seen == \E b \in 1..Len(map.buckets) :
                         \E i \in 1..Len(map.buckets[b]) : map.buckets[b][i][1] = k
         IN  from_iter_keeps_first(
                 IF seen THEN map ELSE [buckets |-> r.buckets, items |-> r.items],
                 Tail(pairs), h)

\* FromIterator::from_iter: the loop `for (k, v) in iter { map.insert(k, v); }`
\* on map, which from_iter starts as HashMap::new().
RECURSIVE from_iter(_, _, _)
from_iter(map, pairs, h) ==
    IF pairs = <<>> THEN map
    ELSE LET r == insert(map.buckets, map.items, h, Head(pairs)[1], Head(pairs)[2])
         IN  from_iter([buckets |-> r.buckets, items |-> r.items], Tail(pairs), h)

\* the sequences of pairs handed to from_iter
RECURSIVE InputsOfLen(_)
InputsOfLen(n) ==
    IF n = 0 THEN {<<>>}
    ELSE {Append(s, p) : s \in InputsOfLen(n - 1), p \in Keys \X Vals}

Inputs == UNION {InputsOfLen(n) : n \in 0..MaxSeq}

\* ------------------------------------------------------------------- state
NoIter == [live |-> FALSE, bucket |-> 0, at |-> 0, out |-> <<>>, done |-> FALSE]
\* IntoIter { map: self, bucket: 0 }; held remembers the buckets the table
\* had when it was converted, out the pairs yielded so far.
IntoIterOf(bs) == [bucket |-> 0, out |-> <<>>, done |-> FALSE, held |-> bs]
NoInto == IntoIterOf(<<>>)

\* The digests a run may give the keys.  Keys are only hashed and compared for
\* equality, so a renaming of the keys maps any assignment of digests to one
\* that is monotone in the key: those are the ones enumerated.
Hashers == {h \in [Keys -> Digests] : \A a, b \in Keys : a <= b => h[a] <= h[b]}

NoBorrow == \A i \in IterIds : ~iters[i].live

Init ==
    /\ buckets = <<>>
    /\ items = 0
    /\ hasher \in Hashers
    /\ mode = "map"
    /\ handle = NoHandle
    /\ iters = [i \in IterIds |-> NoIter]
    /\ into = NoInto
    /\ last = Call("new", 0, 0, Unit, FALSE, 0)

\* ----------------------------------------------------------------- actions
Insert(k, v) ==
    /\ mode = "map" /\ NoBorrow
    /\ LET r == insert(buckets, items, hasher, k, v)
       IN  /\ buckets' = r.buckets
           /\ items' = r.items
           /\ last' = Call("insert", k, v, r.ret, r.resized, 0)
    /\ UNCHANGED <<hasher, mode, handle, iters, into>>

Get(k) ==
    /\ mode = "map"
    /\ LET r == get(buckets, hasher, k)
       IN  /\ last' = Call("get", k, 0, r, FALSE, 0)
           /\ mode' = IF r = Panic THEN "panicked" ELSE mode
    /\ UNCHANGED <<buckets, items, hasher, handle, iters, into>>

ContainsKey(k) ==
    /\ mode = "map" /\ NoBorrow
    /\ LET r == contains_key(buckets, hasher, k)
       IN  /\ last' = Call("contains_key", k, 0, r, FALSE, 0)
           /\ mode' = IF r = Panic THEN "panicked" ELSE mode
    /\ UNCHANGED <<buckets, items, hasher, handle, iters, into>>

Remove(k) ==
    /\ mode = "map" /\ NoBorrow
    /\ LET r == remove(buckets, items, hasher, k)
       IN  /\ buckets' = r.buckets
           /\ items' = r.items
           /\ last' = Call("remove", k, 0, r.ret, FALSE, 0)
           /\ mode' = IF r.ret = Panic THEN "panicked" ELSE mode
    /\ UNCHANGED <<hasher, handle, iters, into>>

LenCall ==
    /\ mode = "map"
    /\ last' = Call("len", 0, 0, Some(items), FALSE, 0)
    /\ UNCHANGED <<buckets, items, hasher, mode, handle, iters, into>>

IsEmpty ==
    /\ mode = "map"
    /\ last' = Call("is_empty", 0, 0, Some(items = 0), FALSE, 0)
    /\ UNCHANGED <<buckets, items, hasher, mode, handle, iters, into>>

\* map.entry(k): the Entry borrows the table until it is used or dropped.
EntryCall(k) ==
    /\ mode = "map" /\ NoBorrow
    /\ LET r == entry(buckets, items, hasher, k)
       IN  /\ buckets' = r.buckets
           /\ handle' = r.handle
           /\ last' = Call("entry", k, 0, Unit, r.resized, 0)
    /\ mode' = "entry"
    /\ UNCHANGED <<items, hasher, iters, into>>

OrInsert(v) ==
    /\ mode = "entry"
    /\ LET r == or_insert(buckets, items, handle, v)
       IN  /\ buckets' = r.buckets
           /\ items' = r.items
           /\ last' = Call("or_insert", last.key, v, r.ret, FALSE, r.made)
    /\ mode' = "map"
    /\ handle' = NoHandle
    /\ UNCHANGED <<hasher, iters, into>>

OrInsertWith(v) ==
    /\ mode = "entry"
    /\ LET r == or_insert_with(buckets, items, handle, v)
       IN  /\ buckets' = r.buckets
           /\ items' = r.items
           /\ last' = Call("or_insert_with", last.key, v, r.ret, FALSE, r.made)
    /\ mode' = "map"
    /\ handle' = NoHandle
    /\ UNCHANGED <<hasher, iters, into>>

OrDefault ==
    /\ mode = "entry"
    /\ LET r == or_default(buckets, items, handle)
       IN  /\ buckets' = r.buckets
           /\ items' = r.items
           /\ last' = Call("or_default", last.key, DefaultValue, r.ret, FALSE, r.made)
    /\ mode' = "map"
    /\ handle' = NoHandle
    /\ UNCHANGED <<hasher, iters, into>>

\* the Entry goes out of scope unused
DropEntry ==
    /\ mode = "entry"
    /\ mode' = "map"
    /\ handle' = NoHandle
    /\ last' = Call("drop_entry", last.key, 0, Unit, FALSE, 0)
    /\ UNCHANGED <<buckets, items, hasher, iters, into>>

\* (&map).into_iter()
IterNew(i) ==
    /\ mode = "map"
    /\ ~iters[i].live
    /\ iters' = [iters EXCEPT ![i] = [NoIter EXCEPT !.live = TRUE]]
    /\ last' = Call("iter", 0, 0, Unit, FALSE, 0)
    /\ UNCHANGED <<buckets, items, hasher, mode, handle, into>>

IterNext(i) ==
    /\ mode = "map"
    /\ iters[i].live
    /\ LET r == iter_next(buckets, iters[i].bucket, iters[i].at)
       IN  /\ iters' = [iters EXCEPT ![i] =
                          [live   |-> TRUE,
                           bucket |-> r.bucket,
                           at     |-> r.at,
                           out    |-> IF r.item = None THEN @.out
                                      ELSE Append(@.out, r.item.val),
                           done   |-> r.item = None]]
           /\ last' = Call("iter_next", 0, 0, r.item, FALSE, 0)
    /\ UNCHANGED <<buckets, items, hasher, mode, handle, into>>

IterDrop(i) ==
    /\ mode = "map"
    /\ iters[i].live
    /\ iters' = [iters EXCEPT ![i] = NoIter]
    /\ last' = Call("iter_drop", 0, 0, Unit, FALSE, 0)
    /\ UNCHANGED <<buckets, items, hasher, mode, handle, into>>

\* map.into_iter(): the table moves into the IntoIter
IntoIterNew ==
    /\ mode = "map" /\ NoBorrow
    /\ mode' = "into_iter"
    /\ into' = IntoIterOf(buckets)
    /\ last' = Call("into_iter", 0, 0, Unit, FALSE, 0)
    /\ UNCHANGED <<buckets, items, hasher, handle, iters>>

IntoIterNext ==
    /\ mode = "into_iter"
    /\ LET r == into_next(buckets, into.bucket)
       IN  /\ buckets' = r.buckets
           /\ into' = [bucket |-> r.bucket,
                       out    |-> IF r.item = None THEN into.out
                                  ELSE Append(into.out, r.item.val),
                       done   |-> r.item = None,
                       held   |-> into.held]
           /\ last' = Call("into_next", 0, 0, r.item, FALSE, 0)
    /\ UNCHANGED <<items, hasher, mode, handle, iters>>

\* HashMap::from_iter(pairs), called where the program has only made new()
FromIter(pairs) ==
    /\ mode = "map" /\ last.op = "new"
    /\ LET r == from_iter([buckets |-> <<>>, items |-> 0], pairs, hasher)
       IN  /\ buckets' = r.buckets
           /\ items' = r.items
    /\ last' = Call("from_iter", 0, pairs, Unit, FALSE, 0)
    /\ UNCHANGED <<hasher, mode, handle, iters, into>>

\* the calls that change the table, and the Entry API
Mutate ==
    \/ \E k \in Keys, v \in Vals : Insert(k, v)
    \/ \E k \in Keys : Remove(k)
    \/ \E k \in Keys : EntryCall(k)
    \/ \E v \in Vals : OrInsert(v)
    \/ \E v \in Vals : OrInsertWith(v)
    \/ OrDefault
    \/ DropEntry

Next ==
    \/ Mutate
    \/ \E k \in Keys : Get(k)
    \/ \E k \in Keys : ContainsKey(k)
    \/ LenCall
    \/ IsEmpty

\* the table's life with its iterators
NextIter ==
    \/ Mutate
    \/ LenCall
    \/ IsEmpty
    \/ \E i \in IterIds : IterNew(i)
    \/ \E i \in IterIds : IterNext(i)
    \/ \E i \in IterIds : IterDrop(i)
    \/ IntoIterNew
    \/ IntoIterNext

Spec == Init /\ [][Next]_vars

IterSpec == Init /\ [][NextIter]_vars

\* a program that builds its table from a sequence
NextFromIter == \E pairs \in Inputs : FromIter(pairs)

FromIterSpec == Init /\ [][NextFromIter]_vars

\* ------------------------------------------------- what the table holds
\* The places of the stored pairs, the pairs, and how often each occurs.
Slots(bs) == UNION {{<<b, i>> : i \in 1..Len(bs[b])} : b \in 1..Len(bs)}

StoredPairs(bs) == {bs[s[1]][s[2]] : s \in Slots(bs)}

StoredBag(bs) ==
    [p \in StoredPairs(bs) |-> Cardinality({s \in Slots(bs) : bs[s[1]][s[2]] = p})]

BagOfSeq(s) ==
    [p \in {s[i] : i \in 1..Len(s)} |-> Cardinality({i \in 1..Len(s) : s[i] = p})]

Present(bs, k) == \E p \in StoredPairs(bs) : p[1] = k

ValuesOf(bs, k) == {p[2] : p \in {q \in StoredPairs(bs) : q[1] = k}}

\* -------------------------------------------------------------- claims

\* C1: on a table with zero buckets (new(), nothing inserted) get(k) returns
\* absent and contains_key(k) returns false, without a fault and without
\* changing the table.
C1_ReadsOnEmptyTable ==
    (Len(buckets) = 0 /\ last.op \in {"get", "contains_key"}) =>
        /\ mode # "panicked"
        /\ last.ret = (IF last.op = "get" THEN None ELSE Some(FALSE))
        /\ items = 0

\* C2: in every reachable state, the fresh table included, remove(k) of an
\* absent key returns absent and leaves the count and the pairs alone;
\* remove(k) of a present key returns its value, takes one off the count, and
\* a get(k) right after returns absent.
C2_Remove ==
    [][last'.op = "remove" =>
        LET k == last'.key
        IN  IF ~Present(buckets, k)
            THEN /\ last'.ret = None
                 /\ items' = items
                 /\ StoredBag(buckets') = StoredBag(buckets)
            ELSE /\ last'.ret.tag = "Some"
                 /\ ValuesOf(buckets, k) = {last'.ret.val}
                 /\ items' = items - 1
                 /\ get(buckets', hasher', k) = None]_vars

\* C3: insert(k, v) followed at once by get(k) returns v, whether or not the
\* insert resized and whether or not k was present.
C3_RoundTrip ==
    last.op = "insert" => get(buckets, hasher, last.key) = Some(last.val)

C3_Witness ==
    /\ last.op = "insert"
    /\ last.resized
    /\ last.ret.tag = "Some"
    /\ last.ret.val # last.val
    /\ items = 2

\* C4: insert(k, v) with k absent returns absent and adds one to the count;
\* insert(k, v2) with k present at v1 returns v1, get(k) then gives v2, and
\* the count is unchanged, resize or not.
C4_Overwrite ==
    [][last'.op = "insert" =>
        LET k == last'.key
        IN  IF ~Present(buckets, k)
            THEN /\ last'.ret = None
                 /\ items' = items + 1
            ELSE /\ last'.ret.tag = "Some"
                 /\ ValuesOf(buckets, k) = {last'.ret.val}
                 /\ get(buckets', hasher', k) = Some(last'.val)
                 /\ items' = items]_vars

C4_Witness ==
    /\ last.op = "insert"
    /\ last.ret = Some(0)
    /\ last.val = 1
    /\ last.resized
    /\ items = 1

\* C5: after any sequence of insert, remove and entry(..).or_insert calls,
\* len() is the number of keys for which get returns a value, is_empty() is
\* true exactly when that number is 0, and a borrowing iteration yields
\* exactly len() pairs.
C5_SizeInvariant ==
    mode = "map" =>
        LET n == Cardinality({k \in Keys : get(buckets, hasher, k).tag = "Some"})
        IN  /\ items = n
            /\ (last.op = "len" => last.ret = Some(n))
            /\ (last.op = "is_empty" => last.ret = Some(n = 0))
            /\ \A i \in IterIds :
                   (iters[i].live /\ iters[i].done) => Len(iters[i].out) = n

C5_Witness ==
    /\ mode = "map"
    /\ items = 1
    /\ Len(buckets) = 8
    /\ \E i \in IterIds : iters[i].live /\ iters[i].done /\ Len(iters[i].out) = 1

\* C6: a resize, from insert or from entry, neither loses nor duplicates nor
\* alters a pair: the pairs stored across the buckets are the same multiset
\* before and after resize(), and get of every key the call is not about
\* returns after the call what the table held for it before.
C6_ResizeTransparent ==
    [][last'.resized =>
        /\ StoredBag(resize(buckets, hasher)) = StoredBag(buckets)
        /\ (last'.op = "entry" => StoredBag(buckets') = StoredBag(buckets))
        /\ \A k \in Keys :
               (k # last'.key \/ last'.op = "entry") =>
                   get(buckets', hasher', k) =
                       (IF Present(buckets, k)
                        THEN Some(CHOOSE v \in ValuesOf(buckets, k) : TRUE)
                        ELSE None)]_vars

C6_Witness ==
    /\ last.resized
    /\ Len(buckets) = 8
    /\ items = 2
    /\ \A k \in Keys : get(buckets, hasher, k).tag = "Some"

\* C7: entry(k).or_insert_with(producer) calls producer zero times when k is
\* present (value and count stay as they are) and exactly once when k is
\* absent; then get(k) returns the produced value and the count grew by one.
C7_EntryLaziness ==
    [][/\ last'.op = "entry" =>
              (items' = items /\ StoredBag(buckets') = StoredBag(buckets))
       /\ last'.op = "or_insert_with" =>
              LET k == last'.key
              IN  IF Present(buckets, k)
                  THEN /\ last'.made = 0
                       /\ buckets' = buckets
                       /\ items' = items
                  ELSE /\ last'.made = 1
                       /\ get(buckets', hasher', k) = Some(last'.val)
                       /\ items' = items + 1]_vars

C7_Witness ==
    /\ last.op = "or_insert_with"
    /\ last.made = 0
    /\ get(buckets, hasher, last.key) = Some(1 - last.val)

\* C8: entry(k).or_insert(v): with k present the stored value stays, no pair
\* is added, the count stays and the reference designates the existing value;
\* with k absent exactly the pair (k, v) is added, the count grows by one and
\* the reference designates the new v.
C8_OrInsert ==
    [][last'.op = "or_insert" =>
        LET k    == last'.key
            slot == At(At(buckets', last'.ret.bucket), last'.ret.index)
        IN  /\ last'.ret.tag = "Ref"
            /\ IF Present(buckets, k)
               THEN /\ buckets' = buckets
                    /\ items' = items
                    /\ slot[1] = k
                    /\ ValuesOf(buckets, k) = {slot[2]}
               ELSE /\ StoredBag(buckets') =
                           StoredBag(buckets) (+) SetToBag({<<k, last'.val>>})
                    /\ items' = items + 1
                    /\ slot = <<k, last'.val>>]_vars

C8_Witness ==
    /\ last.op = "or_insert"
    /\ last.ret.tag = "Ref"
    /\ At(At(buckets, last.ret.bucket), last.ret.index) = <<last.key, 1 - last.val>>
    /\ items = 2

\* C9: on a table that is not changed meanwhile, a borrowing iterator started
\* at (0, 0) yields every stored pair exactly once, with its current value,
\* and then None; a second iterator yields the same multiset; iterating
\* leaves the table as it is.
C9_IterComplete ==
    /\ [](\A i \in IterIds :
             iters[i].live =>
                 /\ BagOfSeq(iters[i].out) \sqsubseteq StoredBag(buckets)
                 /\ (iters[i].done =>
                        BagOfSeq(iters[i].out) = StoredBag(buckets))
                 /\ \A j \in IterIds :
                        (iters[j].live /\ iters[i].done /\ iters[j].done) =>
                            BagOfSeq(iters[i].out) = BagOfSeq(iters[j].out))
    /\ [][last'.op \in {"iter", "iter_next", "iter_drop"} =>
              (buckets' = buckets /\ items' = items)]_vars

C9_Witness ==
    /\ \A i \in IterIds :
           iters[i].live /\ iters[i].done /\ Len(iters[i].out) = 2
    /\ Len(buckets) = 8
    /\ Len(buckets[1]) = 1
    /\ Len(buckets[2]) = 1

\* C10: an owning iterator, called until it returns None, yields exactly the
\* pairs the table held when it was converted, each once, and when None is
\* returned every bucket of the owned table is empty.
C10_IntoIterDrains ==
    mode = "into_iter" =>
        /\ BagOfSeq(into.out) (+) StoredBag(buckets) = StoredBag(into.held)
        /\ into.done =>
               /\ BagOfSeq(into.out) = StoredBag(into.held)
               /\ \A b \in 1..Len(buckets) : buckets[b] = <<>>

C10_Witness ==
    /\ mode = "into_iter"
    /\ into.done
    /\ Len(into.out) = 2
    /\ \E b \in 1..Len(into.held) : Len(into.held[b]) = 2

\* C11: from_iter over a finite sequence of pairs gives the table that
\* inserting the pairs in order into new() gives: get of every key of the
\* sequence returns the value of its last occurrence, the table holds nothing
\* else, and len() is the number of distinct keys of the sequence.
Occurrences(s, k) == {i \in 1..Len(s) : s[i][1] = k}

LastValue(s, k) ==
    s[CHOOSE i \in Occurrences(s, k) : \A j \in Occurrences(s, k) : j <= i][2]

C11_FromIter ==
    last.op = "from_iter" =>
        LET s    == last.val
            keys == {k \in Keys : Occurrences(s, k) # {}}
        IN  /\ \A k \in keys : get(buckets, hasher, k) = Some(LastValue(s, k))
            /\ StoredPairs(buckets) = {<<k, LastValue(s, k)>> : k \in keys}
            /\ items = Cardinality(keys)
            /\ Cardinality(Slots(buckets)) = Cardinality(keys)

C11_Witness ==
    /\ last.op = "from_iter"
    /\ Len(last.val) = 3
    /\ items = 2
    /\ \E k \in Keys :
           /\ Cardinality(Occurrences(last.val, k)) = 2
           /\ ValuesOf(buckets, k) # {last.val[CHOOSE i \in Occurrences(last.val, k) : TRUE][2]}

\* C12: entry(key) makes the growth check of insert(key, value): on both
\* paths resize() runs exactly when bucket_count == 0 or
\* item_count > bucket_count / 4, so the two calls resize in the same cases.
C12_UniformGrowth ==
    [][last'.op \in {"insert", "entry"} =>
          (last'.resized <=> (Len(buckets) = 0 \/ items > Len(buckets) \div 4))]_vars

\* C13: in every state reached by insert, remove and entry (dropped or
\* followed by or_insert, or_insert_with, or_default), resizes included, the
\* item counter equals the sum of the lengths of all buckets.
RECURSIVE SumLen(_)
SumLen(bs) == IF bs = <<>> THEN 0 ELSE Len(Head(bs)) + SumLen(Tail(bs))

C13_CounterInvariant == items = SumLen(buckets)

C13_Witness ==
    /\ last.op \in {"or_insert", "or_insert_with", "or_default"}
    /\ last.made = 1
    /\ items = 2
    /\ SumLen(buckets) = 2

\* C14: no key is stored twice: over all buckets together at most one pair
\* carries a given key, also when insert and the entry API are mixed and when
\* distinct keys share a digest or a bucket.
PairsOf(bs, k) == {s \in Slots(bs) : bs[s[1]][s[2]][1] = k}

C14_NoDuplicateKeys == \A k \in Keys : Cardinality(PairsOf(buckets, k)) <= 1

C14_Witness ==
    /\ last.op \in {"or_insert", "or_insert_with", "or_default"}
    /\ Len(buckets) = 8
    /\ \E b \in 1..Len(buckets) : Len(buckets[b]) = 2
    /\ hasher[1] = hasher[2]

\* C15: the bucket count is 0 or a power of two in every reachable state; it
\* is 0 only while no insert or entry call has been made; an insert or entry
\* call runs resize at most once, taking the count from 0 to 1 or from n to
\* 2n; no operation lowers the count.
RECURSIVE IsPowerOfTwo(_)
IsPowerOfTwo(n) == n = 1 \/ (n > 1 /\ n % 2 = 0 /\ IsPowerOfTwo(n \div 2))

BeforeFirstInsert ==
    last.op \in {"new", "get", "contains_key", "remove", "len", "is_empty",
                 "iter", "iter_next", "iter_drop", "into_iter", "into_next"}

C15_BucketCountShape ==
    /\ [](/\ Len(buckets) = 0 \/ IsPowerOfTwo(Len(buckets))
          /\ Len(buckets) = 0 => BeforeFirstInsert /\ items = 0)
    /\ [][/\ Len(buckets') >= Len(buckets)
          /\ last'.op \in {"insert", "entry"} => Len(buckets') >= 1
          /\ Len(buckets') # Len(buckets) =>
                /\ last'.op \in {"insert", "entry"}
                /\ last'.resized
                /\ Len(buckets') = IF Len(buckets) = 0 THEN 1 ELSE 2 * Len(buckets)
          /\ last'.op \in {"insert", "entry"} /\ ~last'.resized =>
                Len(buckets') = Len(buckets)]_vars

C15_Witness ==
    /\ last.op = "entry"
    /\ last.resized
    /\ Len(buckets) = 4

\* C16: get, contains_key, len and is_empty, called on a table with at least
\* one bucket, return without a fault and leave the bucket store and the item
\* counter as they were; contains_key(k) is true exactly when get(k) returns
\* a present value.
ReadOps == {"get", "contains_key", "len", "is_empty"}

C16_ReadsPure ==
    /\ [][last'.op \in ReadOps /\ Len(buckets) > 0 =>
             /\ buckets' = buckets
             /\ items' = items
             /\ mode' = mode
             /\ last'.ret # Panic]_vars
    /\ [](last.op = "contains_key" /\ Len(buckets) > 0 =>
             /\ last.ret = Some(get(buckets, hasher, last.key) # None)
             /\ last.ret = Some(Present(buckets, last.key)))

C16_Witness ==
    /\ last.op = "contains_key"
    /\ last.ret = Some(FALSE)
    /\ At(buckets, bucket(buckets, hasher, last.key)) # <<>>

\* C17: on a table with zero buckets, or with buckets that are all empty,
\* next() of the borrowing and of the consuming iterator returns None, without
\* a fault and with the cursor inside 0..bucket_count; an iterator that has
\* returned None returns None on every later next().
C17_IterationTerminates ==
    /\ [](/\ \A i \in IterIds : iters[i].live => iters[i].bucket \in 0..Len(buckets)
          /\ mode = "into_iter" => into.bucket \in 0..Len(buckets))
    /\ [][/\ last'.op \in {"iter_next", "into_next"} =>
                /\ mode' # "panicked"
                /\ Slots(buckets) = {} => last'.ret = None
          /\ \A i \in IterIds :
                iters[i].live /\ iters[i].done /\ iters'[i].live =>
                    iters'[i].done /\ iters'[i].out = iters[i].out
          /\ mode = "into_iter" /\ into.done =>
                into'.done /\ into'.out = into.out]_vars

C17_Witness ==
    /\ last.op = "iter_next"
    /\ last.ret = None
    /\ Len(buckets) = 2
    /\ Slots(buckets) = {}
    /\ \A i \in IterIds : iters[i].live /\ iters[i].done /\ iters[i].out = <<>>

\* C18: every stored pair (k, v) lies in bucket hash(k) mod bucket_count, so
\* get(k) finds every stored key; the bucket index a Vacant entry holds was
\* taken after any growth, and is the key's bucket in the table the entry
\* borrows.
C18_Placement ==
    /\ \A s \in Slots(buckets) :
          s[1] - 1 = hasher[buckets[s[1]][s[2]][1]] % Len(buckets)
    /\ mode # "into_iter" =>
          \A p \in StoredPairs(buckets) : get(buckets, hasher, p[1]) = Some(p[2])
    /\ mode = "entry" /\ handle.kind = "Vacant" =>
          handle.bucket = hasher[handle.key] % Len(buckets)

C18_Witness ==
    /\ mode = "entry"
    /\ handle.kind = "Vacant"
    /\ last.resized
    /\ handle.bucket = 1
    /\ items = 1

C20_KeyIndependence ==
    [][last'.op \in {"insert", "remove", "entry", "or_insert"} =>
          \A k \in Keys \ {last'.key} :
              get(buckets', hasher, k) = get(buckets, hasher, k)]_vars

====
